---- MODULE Spec2Model ----
(***************************************************************************)
(* A model of add_voice_example.py: the four operations on a voice         *)
(* directory (add_voice_to_vibevoice, create_voice_with_background_music,  *)
(* list_available_voices, validate_voice_file).                            *)
(*                                                                         *)
(* Strings are sequences of one-character strings, so that the file-name   *)
(* convention and its parse are computed character by character.  Audio    *)
(* signals are sequences of integer samples; a normalised sample is the    *)
(* exact fraction <<numerator, denominator>> (denominator 0 is the NaN     *)
(* that numpy produces for 0/0).                                           *)
(***************************************************************************)
EXTENDS Integers, Sequences, FiniteSets, TLC

VARIABLES
    scope,      \* which family of inputs the run draws its arguments from
    calls,      \* number of calls the run may still make
    dirKind,    \* what the voices_dir path is: "missing", "dir" or "file"
    files,      \* the directory's entries: file name -> file content
    ret,        \* the last call: its arguments, locals, console output, result
    lastWrite   \* the last call that wrote a voice file

vars == <<scope, calls, dirKind, files, ret, lastWrite>>

(***************************** bounds ***************************************)
MaxLen == 4          \* longest source signal, in samples
Loud == 12           \* amplitude of the loud sample (the quiet one is 1)
HopLength == 1       \* hop of the trim's analysis frames, in samples
MaxCalls == 3        \* calls in a lifecycle run
MaxInitFiles == 2    \* files present in the directory before a listing run

(************************* program constants ********************************)
SampleRate == 24000          \* sr=24000
TrimPowerRatio == 100        \* top_db=20, as a ratio of powers
PeakNum == 95                \* 0.95 = PeakNum / PeakDen
PeakDen == 100
MinSeconds == 2
MaxSeconds == 30
KiB == 1024
WavHeaderBytes == 44         \* sf.write: WAV header, then 16-bit samples
BytesPerSample == 2

(***************************** characters ***********************************)
\* The characters in use, in code-point order.
Alphabet ==
    << "-", ".", "/", "3", "4", "A", "B", "C", "E", "G", "J", "M", "N", "V", "W",
       "_", "a", "b", "c", "d", "e", "f", "g", "h", "i", "j", "l", "m", "n", "o",
       "p", "r", "s", "t", "u", "v", "w", "x", "y", "z" >>

Ord(c) == CHOOSE i \in 1..Len(Alphabet) : Alphabet[i] = c

\* str.lower(), one character
LowerChar(c) ==
    CASE c = "A" -> "a" [] c = "B" -> "b" [] c = "C" -> "c" [] c = "E" -> "e"
      [] c = "G" -> "g" [] c = "J" -> "j" [] c = "M" -> "m" [] c = "N" -> "n"
      [] c = "V" -> "v" [] c = "W" -> "w" [] OTHER -> c

\* str.lower()
Lower(s) == [i \in 1..Len(s) |-> LowerChar(s[i])]

\* str.endswith(suffix)
EndsWith(s, suffix) ==
    /\ Len(s) >= Len(suffix)
    /\ SubSeq(s, Len(s) - Len(suffix) + 1, Len(s)) = suffix

\* `sub in s`, scanning s from the left
RECURSIVE InStr(_, _)
InStr(sub, s) ==
    IF Len(s) < Len(sub) THEN FALSE
    ELSE IF SubSeq(s, 1, Len(sub)) = sub THEN TRUE
    ELSE InStr(sub, Tail(s))

\* str.split(sep) for a one-character separator: the list of pieces
RECURSIVE SplitFrom(_, _, _)
SplitFrom(s, sep, piece) ==
    IF s = <<>> THEN <<piece>>
    ELSE IF Head(s) = sep THEN <<piece>> \o SplitFrom(Tail(s), sep, <<>>)
    ELSE SplitFrom(Tail(s), sep, Append(piece, Head(s)))

Split(s, sep) == SplitFrom(s, sep, <<>>)

\* str < str, by code points (what sorted() uses)
StrLess(a, b) ==
    \E k \in 1..(Len(b)) :
        /\ k <= Len(a) + 1
        /\ \A j \in 1..(k - 1) : a[j] = b[j]
        /\ \/ k = Len(a) + 1
           \/ k <= Len(a) /\ Ord(a[k]) < Ord(b[k])

\* sorted(S) for a set of strings
RECURSIVE Sorted(_)
Sorted(S) ==
    IF S = {} THEN <<>>
    ELSE LET first == CHOOSE x \in S : \A y \in S \ {x} : StrLess(x, y)
         IN  <<first>> \o Sorted(S \ {first})

\* os.path.splitext: split at the last dot, unless only dots precede it
splitext(p) ==
    LET dots == {i \in 1..Len(p) : p[i] = "."}
        dotIndex == IF dots = {} THEN 0 ELSE CHOOSE i \in dots : \A j \in dots : j <= i
    IN  IF dotIndex > 0 /\ \E j \in 1..(dotIndex - 1) : p[j] # "."
        THEN <<SubSeq(p, 1, dotIndex - 1), SubSeq(p, dotIndex, Len(p))>>
        ELSE <<p, <<>>>>

\* os.path.join(a, b)
join(a, b) ==
    IF b # <<>> /\ b[1] = "/" THEN b
    ELSE IF a = <<>> \/ a[Len(a)] = "/" THEN a \o b
    ELSE a \o <<"/">> \o b

(******************************* strings ************************************)
voices_dir == <<"d", "e", "m", "o", "/", "v", "o", "i", "c", "e", "s">>
DotWav == <<".", "w", "a", "v">>
AudioExtensions ==
    { DotWav, <<".", "m", "p", "3">>, <<".", "f", "l", "a", "c">>,
      <<".", "o", "g", "g">>, <<".", "m", "4", "a">>, <<".", "a", "a", "c">> }
bgm == <<"b", "g", "m">>
en == <<"e", "n">>
Emma == <<"E", "m", "m", "a">>
Bob == <<"B", "o", "b">>
female == <<"f", "e", "m", "a", "l", "e">>
neutral == <<"n", "e", "u", "t", "r", "a", "l">>
(******************************** audio *************************************)
Abs(x) == IF x < 0 THEN -x ELSE x
Min(a, b) == IF a < b THEN a ELSE b
SetMax(S) == CHOOSE x \in S : \A y \in S : y <= x
SetMin(S) == CHOOSE x \in S : \A y \in S : x <= y

\* np.max(np.abs(x)) for a non-empty signal
PeakAbs(x) == SetMax({Abs(x[i]) : i \in 1..Len(x)})

\* A source path and what the codec finds there.
Unreadable == [readable |-> FALSE]
Loaded(y) == [readable |-> TRUE, samples |-> y, n |-> Len(y), sr |-> SampleRate]
Recording(n, sr) == [readable |-> TRUE, n |-> n, sr |-> sr]

\* librosa.effects.trim(audio, top_db=20): frames of 4 hops centred on every
\* hop, zero-padded at both ends; a frame is non-silent when its power is
\* within top_db of the loudest frame's; the signal is cut to the hops from
\* the first to the last non-silent frame.
FrameLength == 4 * HopLength
NFrames(y) == 1 + (Len(y) \div HopLength)

RECURSIVE SumSquares(_, _, _)
SumSquares(y, lo, hi) ==
    IF lo > hi THEN 0 ELSE y[lo] * y[lo] + SumSquares(y, lo + 1, hi)

\* Power of frame i (frames and sample offsets count from 0).
FramePower(y, i) ==
    LET lo == i * HopLength - (FrameLength \div 2)
        hi == i * HopLength + (FrameLength \div 2) - 1
        first == IF lo < 0 THEN 0 ELSE lo
        last == Min(hi, Len(y) - 1)
    IN  SumSquares(y, first + 1, last + 1)

NonSilent(y) ==
    LET ref == SetMax({FramePower(y, i) : i \in 0..(NFrames(y) - 1)})
    IN  {i \in 0..(NFrames(y) - 1) :
            ref = 0 \/ TrimPowerRatio * FramePower(y, i) > ref}

trim(y) ==
    LET nonzero == NonSilent(y)
        start == IF nonzero = {} THEN 0 ELSE SetMin(nonzero) * HopLength
        end == IF nonzero = {} THEN 0
               ELSE Min(Len(y), (SetMax(nonzero) + 1) * HopLength)
    IN  SubSeq(y, start + 1, end)

\* A variant that divides by np.max(audio), the largest sample, not the peak.
NormalizeAudio_noAbs(audio) ==
    [i \in 1..Len(audio) |->
        <<PeakNum * audio[i], PeakDen * SetMax({audio[k] : k \in 1..Len(audio)})>>]

\* audio / np.max(np.abs(audio)) * 0.95, for a non-empty signal
NormalizeAudio(audio) ==
    [i \in 1..Len(audio) |-> <<PeakNum * audio[i], PeakDen * PeakAbs(audio)>>]

\* A variant that pads the music with silence instead of repeating it.
LoopMusic_zeroPad(music, n) ==
    [i \in 1..n |-> IF i <= Len(music) THEN music[i] ELSE 0]

\* np.tile(music, repeats)[:n] with repeats = ceil(n / len(music))
LoopMusic(music, n) ==
    LET repeats == (n + Len(music) - 1) \div Len(music)
        tiled == [i \in 1..(repeats * Len(music)) |-> music[((i - 1) % Len(music)) + 1]]
    IN  SubSeq(tiled, 1, Min(n, Len(tiled)))

\* voice + (music * music_volume), over the volume's denominator; numpy
\* broadcasts a one-sample operand and rejects other unequal lengths.
CanAdd(voice, music) == Len(voice) = Len(music) \/ Len(voice) = 1 \/ Len(music) = 1
At(x, i) == IF Len(x) = 1 THEN x[1] ELSE x[i]
Mix(voice, music, volume) ==
    LET n == IF Len(voice) = 1 THEN Len(music) ELSE Len(voice)
    IN  [i \in 1..n |-> At(voice, i) * volume[2] + At(music, i) * volume[1]]

\* mixed / np.max(np.abs(mixed)) * 0.95, for a non-empty signal
NormalizeMixed(mixed) ==
    [i \in 1..Len(mixed) |-> <<PeakNum * mixed[i], PeakDen * PeakAbs(mixed)>>]

(***************************** file system **********************************)
\* What sf.write(target_path, samples, 24000) leaves on disk.
WavFile(samples) ==
    [sr |-> SampleRate, samples |-> samples,
     bytes |-> WavHeaderBytes + BytesPerSample * Len(samples)]

\* A variant that empties the directory before it writes.
WriteFile_clearsDirectory(dir, filename, samples) ==
    [f \in {filename} |-> WavFile(samples)]

\* The directory after sf.write: the target is created or replaced.
WriteFile(dir, filename, samples) ==
    [f \in DOMAIN dir \cup {filename} |->
        IF f = filename THEN WavFile(samples) ELSE dir[f]]

NoFiles == [f \in {} |-> 0]
None == [op |-> "none"]

\* A variant with the two separators exchanged.
VoiceFilename_separatorsSwapped(language_code, speaker_name, tag) ==
    language_code \o <<"_">> \o speaker_name \o <<"-">> \o tag \o DotWav

\* f"{language_code}-{speaker_name}_{tag}.wav"
VoiceFilename(language_code, speaker_name, tag) ==
    language_code \o <<"-">> \o speaker_name \o <<"_">> \o tag \o DotWav
(****************************** operations **********************************)
\* One call's record: arguments, the directory's kind when it started, how it
\* ended (returned or raised), its result, its locals and its console lines.
Call(op, args, status, error, value, locals, out) ==
    [op |-> op, args |-> args, dirBefore |-> dirKind, status |-> status,
     error |-> error, value |-> value, locals |-> locals, out |-> out]

Written(op, language_code, speaker_name, tag, filename) ==
    [op |-> op, language_code |-> language_code, speaker_name |-> speaker_name,
     tag |-> tag, file |-> filename]

add_voice_to_vibevoice(source_audio, speaker_name, language_code, gender) ==
    LET op == "add_voice_to_vibevoice"
        args == [source_audio |-> source_audio, speaker_name |-> speaker_name,
                 language_code |-> language_code, gender |-> gender]
        filename == VoiceFilename(language_code, speaker_name, gender)
        target_path == join(voices_dir, filename)
        audio == trim(source_audio.samples)
    IN  /\ calls' = calls - 1
        /\ UNCHANGED scope
        /\ IF dirKind = "file"
           THEN \* os.makedirs(voices_dir, exist_ok=True) on a regular file
                /\ ret' = Call(op, args, "raised", "FileExistsError", <<>>, <<>>, <<>>)
                /\ UNCHANGED <<dirKind, files, lastWrite>>
           ELSE IF ~source_audio.readable
           THEN \* librosa.load raises, after the directory was made
                /\ dirKind' = "dir"
                /\ ret' = Call(op, args, "raised", "LoadError", <<>>, <<>>,
                               <<"processing">>)
                /\ UNCHANGED <<files, lastWrite>>
           ELSE IF Len(audio) = 0
           THEN \* np.max of an empty array
                /\ dirKind' = "dir"
                /\ ret' = Call(op, args, "raised", "ValueError", <<>>,
                               [audio |-> audio], <<"processing">>)
                /\ UNCHANGED <<files, lastWrite>>
           ELSE /\ dirKind' = "dir"
                /\ files' = WriteFile(files, filename, NormalizeAudio(audio))
                /\ ret' = Call(op, args, "returned", "none", target_path,
                               [audio |-> audio],
                               <<"processing", "voice_added", "speaker_name">>)
                /\ lastWrite' = Written(op, language_code, speaker_name, gender, filename)

create_voice_with_background_music(voice_src, music_src, speaker_name, language_code, music_volume) ==
    LET op == "create_voice_with_background_music"
        args == [voice |-> voice_src, music |-> music_src,
                 speaker_name |-> speaker_name, language_code |-> language_code,
                 music_volume |-> music_volume]
        voice == voice_src.samples
        music == IF Len(music_src.samples) > Len(voice)
                 THEN SubSeq(music_src.samples, 1, Len(voice))
                 ELSE LoopMusic(music_src.samples, Len(voice))
        mixed == Mix(voice, music, music_volume)
        filename == VoiceFilename(language_code, speaker_name, bgm)
        target_path == join(voices_dir, filename)
        Raise(error, locals) == Call(op, args, "raised", error, <<>>, locals, <<>>)
    IN  /\ calls' = calls - 1
        /\ UNCHANGED scope
        /\ IF ~voice_src.readable \/ ~music_src.readable
           THEN /\ ret' = Raise("LoadError", <<>>)
                /\ UNCHANGED <<dirKind, files, lastWrite>>
           ELSE IF Len(music_src.samples) <= Len(voice) /\ Len(music_src.samples) = 0
           THEN \* len(voice) / len(music)
                /\ ret' = Raise("ZeroDivisionError", [voice |-> voice])
                /\ UNCHANGED <<dirKind, files, lastWrite>>
           ELSE IF ~CanAdd(voice, music)
           THEN /\ ret' = Raise("ValueError", [voice |-> voice, music |-> music])
                /\ UNCHANGED <<dirKind, files, lastWrite>>
           ELSE IF Len(mixed) = 0
           THEN \* np.max of an empty array
                /\ ret' = Raise("ValueError", [voice |-> voice, music |-> music])
                /\ UNCHANGED <<dirKind, files, lastWrite>>
           ELSE IF dirKind # "dir"
           THEN \* sf.write cannot create the file: nothing made the directory
                /\ ret' = Raise("LibsndfileError",
                                [voice |-> voice, music |-> music, mixed |-> mixed])
                /\ UNCHANGED <<dirKind, files, lastWrite>>
           ELSE /\ files' = WriteFile(files, filename, NormalizeMixed(mixed))
                /\ ret' = Call(op, args, "returned", "none", target_path,
                               [voice |-> voice, music |-> music, mixed |-> mixed],
                               <<"bgm_created">>)
                /\ lastWrite' = Written(op, language_code, speaker_name, bgm, filename)
                /\ UNCHANGED dirKind

\* A variant that keeps the piece after the last '_' instead of the first piece.
ParseSpeakerName_lastPiece(name) ==
    LET first == IF InStr(<<"_">>, name)
                 THEN Split(name, "_")[Len(Split(name, "_"))] ELSE name
    IN  IF InStr(<<"-">>, first)
        THEN Split(first, "-")[Len(Split(first, "-"))]
        ELSE first

\* The speaker name of a base name: lines 121-125.
ParseSpeakerName(name) ==
    LET first == IF InStr(<<"_">>, name) THEN Split(name, "_")[1] ELSE name
    IN  IF InStr(<<"-">>, first)
        THEN Split(first, "-")[Len(Split(first, "-"))]
        ELSE first

\* One metadata record: lines 118-139.
VoiceInfo(voice_file) ==
    LET name == splitext(voice_file)[1]
    IN  [file |-> voice_file,
         speaker_name |-> ParseSpeakerName(name),
         has_bgm |-> InStr(bgm, Lower(name)),
         size_kb |-> files[voice_file].bytes \div KiB]

\* A variant without the extension filter.
IsVoiceFile_anyFile(f) == TRUE

IsVoiceFile(f) == \E ext \in AudioExtensions : EndsWith(Lower(f), ext)

list_available_voices ==
    LET op == "list_available_voices"
        voice_files == {f \in DOMAIN files : IsVoiceFile(f)}
        order == Sorted(voice_files)
        voices_info == [i \in 1..Len(order) |-> VoiceInfo(order[i])]
    IN  /\ calls' = calls - 1
        /\ UNCHANGED <<scope, dirKind, files, lastWrite>>
        /\ ret' = IF dirKind = "missing"
                  THEN Call(op, <<>>, "returned", "none", <<>>, <<>>, <<"not_found">>)
                  ELSE IF dirKind = "file"
                  THEN \* os.listdir on a regular file
                       Call(op, <<>>, "raised", "NotADirectoryError", <<>>, <<>>, <<>>)
                  ELSE Call(op, <<>>, "returned", "none", voices_info, <<>>,
                            <<"available">> \o [i \in 1..Len(order) |-> "row"])

\* A variant whose comparisons include the two limits.
DurationAdvice_inclusive(n, sr) ==
    IF n <= MinSeconds * sr THEN "too_short"
    ELSE IF n >= MaxSeconds * sr THEN "too_long"
    ELSE "duration_good"

\* Lines 159-164, with duration = n / sr.
DurationAdvice(n, sr) ==
    IF n < MinSeconds * sr THEN "too_short"
    ELSE IF n > MaxSeconds * sr THEN "too_long"
    ELSE "duration_good"

\* Lines 166-169.
RateAdvice(sr) == IF sr # SampleRate THEN "will_resample" ELSE "rate_optimal"

\* A variant that lets the exception through.
OnException_propagates(op, args) ==
    Call(op, args, "raised", "LoadError", <<>>, <<>>, <<>>)

\* The except clause: lines 173-175.
OnException(op, args) == Call(op, args, "returned", "none", FALSE, <<>>, <<"error">>)

validate_voice_file(audio) ==
    LET op == "validate_voice_file"
        args == [audio |-> audio]
    IN  /\ calls' = calls - 1
        /\ UNCHANGED <<scope, dirKind, files, lastWrite>>
        /\ ret' = IF ~audio.readable
                  THEN OnException(op, args)
                  ELSE Call(op, args, "returned", "none", TRUE, <<>>,
                            <<"validation", "duration", "sample_rate", "channels",
                              DurationAdvice(audio.n, audio.sr), RateAdvice(audio.sr)>>)

(******************************** inputs ************************************)
Samples == {0 - Loud, 0, 1}
Signals == UNION {[1..n -> Samples] : n \in 0..MaxLen}

AudioSources ==
    CASE scope = "signals" -> {Unreadable} \cup {Loaded(y) : y \in Signals}
      [] scope = "lifecycle" ->
            {Unreadable, Loaded(<<>>), Loaded(<<1, 0 - Loud>>), Loaded(<<0, 1, 1>>)}
      [] OTHER -> {Loaded(<<1>>)}

Volumes ==
    IF scope = "signals" THEN {<<1, 10>>, <<1, 1>>} ELSE {<<1, 10>>}

SpeakerNames ==
    CASE scope = "names" ->
            {Emma, <<>>, <<"g", "m">>, <<"B", "g", "m">>,
             <<"B", "o", "b", "_", "J", "r">>, <<"a", "-", "b">>}
      [] scope = "lifecycle" -> {Emma, Bob}
      [] OTHER -> {Emma}

LanguageCodes ==
    IF scope = "names"
    THEN {en, <<"z", "h", "-", "C", "N">>, <<"b">>, <<"e", "n", "_", "u", "s">>}
    ELSE {en}

Genders ==
    CASE scope = "names" -> {female, neutral, bgm, <<"g", "m">>}
      [] scope = "lifecycle" -> {female, bgm}
      [] OTHER -> {neutral}

Rates == {16000, SampleRate, 48000}
Recordings ==
    IF scope = "signals"
    THEN UNION {{Recording(n, sr) :
                    n \in {0, sr, MinSeconds * sr - 1, MinSeconds * sr,
                           MinSeconds * sr + 1, MaxSeconds * sr - 1,
                           MaxSeconds * sr, MaxSeconds * sr + 1}} : sr \in Rates}
    ELSE {Recording(16000, 16000)}

\* What validate_voice_file may be pointed at: a path outside the directory,
\* or one of the directory's files.
ValidatorSources ==
    {Unreadable} \cup Recordings
        \cup {Recording(Len(files[f].samples), files[f].sr) : f \in DOMAIN files}

\* Files that may be in the directory before a listing run.
StockFile == [sr |-> SampleRate, samples |-> <<<<PeakNum, PeakDen>>>>, bytes |-> 5000]
ListedNames ==
    { en \o <<"-">> \o Emma \o <<"_">> \o female \o DotWav,
      en \o <<"-">> \o Emma \o <<"_">> \o bgm \o DotWav,
      en \o <<"-">> \o Emma \o <<"_", "B", "G", "M", ".", "W", "A", "V">>,
      Emma \o <<".", "m", "p", "3">>,
      <<"B", "g", "m", ".", "a", "a", "c">>,
      en \o <<"-", "B", "o", "b", "_", "J", "r", "_", "m", "a", "l", "e", ".", "f", "l", "a", "c">>,
      <<"z", "h", "-", "C", "N", "-", "B", "o", "b", "_", "m", "a", "l", "e", ".", "o", "g", "g">>,
      <<"e", "n", "_", "B", "o", "b", "-", "x", ".", "w", "a", "v">>,
      <<"a", ".", "b", "-", "c", "_", "d", ".", "m", "4", "a">>,
      <<"-", "_", ".", "w", "a", "v">>,
      DotWav,
      <<"w", "a", "v">>,
      <<"n", "o", "t", "e", "s", ".", "t", "x", "t">>,
      en \o <<"-">> \o Emma \o <<"_">> \o female \o DotWav \o <<".", "t", "x", "t">> }

StockDirs(k) ==
    {[f \in S |-> StockFile] : S \in {T \in SUBSET ListedNames : Cardinality(T) <= k}}

(***************************** specifications *******************************)
InitCommon ==
    /\ ret = None
    /\ lastWrite = None
    /\ dirKind \in {"missing", "dir", "file"}

\* Lifecycle runs: several calls on one directory.
Init ==
    /\ scope = "lifecycle"
    /\ calls = MaxCalls
    /\ InitCommon
    /\ files \in IF dirKind = "dir"
                 THEN {NoFiles, [f \in {VoiceFilename(en, Emma, female)} |-> StockFile]}
                 ELSE {NoFiles}

\* One call on signals of every shape up to MaxLen.
InitSignals ==
    /\ scope = "signals"
    /\ calls = 1
    /\ InitCommon
    /\ files = NoFiles

\* A write with names of every shape, then a second call.
InitNames ==
    /\ scope = "names"
    /\ calls = 2
    /\ InitCommon
    /\ files = NoFiles

\* One call on a directory that already holds files.
InitListing ==
    /\ scope = "listing"
    /\ calls = 1
    /\ InitCommon
    /\ files \in IF dirKind = "dir" THEN StockDirs(MaxInitFiles) ELSE {NoFiles}

\* A run makes calls while it has some left.
MayCall == calls > 0

Next ==
    \/ /\ MayCall
       /\ \E source_audio \in AudioSources, speaker_name \in SpeakerNames,
             language_code \in LanguageCodes, gender \in Genders :
               add_voice_to_vibevoice(source_audio, speaker_name, language_code, gender)
    \/ /\ MayCall
       /\ \E voice \in AudioSources, music \in AudioSources,
             speaker_name \in SpeakerNames, language_code \in LanguageCodes,
             music_volume \in Volumes :
               create_voice_with_background_music(voice, music, speaker_name,
                                                  language_code, music_volume)
    \/ MayCall /\ list_available_voices
    \/ MayCall /\ \E audio \in ValidatorSources : validate_voice_file(audio)

Spec == Init /\ [][Next]_vars
SpecSignals == InitSignals /\ [][Next]_vars
SpecNames == InitNames /\ [][Next]_vars
SpecListing == InitListing /\ [][Next]_vars
(******************************* properties *********************************)
Add == "add_voice_to_vibevoice"
MixOp == "create_voice_with_background_music"
ListOp == "list_available_voices"
ValidateOp == "validate_voice_file"

Has(s, c) == \E i \in 1..Len(s) : s[i] = c
\* The part of s before its first c (all of s when c does not occur).
BeforeFirst(s, c) ==
    IF ~Has(s, c) THEN s
    ELSE SubSeq(s, 1, SetMin({i \in 1..Len(s) : s[i] = c}) - 1)
\* The part of s after its last c (all of s when c does not occur).
AfterLast(s, c) ==
    IF ~Has(s, c) THEN s
    ELSE SubSeq(s, SetMax({i \in 1..Len(s) : s[i] = c}) + 1, Len(s))
\* s contains "bgm" in any letter case.
MentionsBgm(s) ==
    \E k \in 1..(Len(s) - 2) :
        /\ s[k] \in {"b", "B"} /\ s[k + 1] \in {"g", "G"} /\ s[k + 2] \in {"m", "M"}
\* f ends in one of the six audio extensions, in any letter case.
HasAudioExtension(f) ==
    \E ext \in AudioExtensions :
        /\ Len(f) >= Len(ext)
        /\ \A k \in 1..Len(ext) : LowerChar(f[Len(f) - Len(ext) + k]) = ext[k]
Lines(tags) == {i \in 1..Len(ret.out) : ret.out[i] \in tags}
EmmaFemaleWav == <<"e", "n", "-", "E", "m", "m", "a", "_", "f", "e", "m", "a", "l", "e", ".", "w", "a", "v">>
EmmaBgmWav == <<"e", "n", "-", "E", "m", "m", "a", "_", "b", "g", "m", ".", "w", "a", "v">>
\* The path <voices_dir>/<language_code>-<speaker_name>_<tag>.wav of a call.
ConventionName(a, tag) ==
    a.language_code \o <<"-">> \o a.speaker_name \o <<"_">> \o tag \o <<".", "w", "a", "v">>
ConventionPath(a, tag) == voices_dir \o <<"/">> \o ConventionName(a, tag)

\* C1 (as claimed): for every voice length and every music length the Mixer,
\* given two loadable sources and an existing directory, completes and writes a
\* signal with exactly as many samples as the voice.
C1_MixedLengthEqualsVoiceLength ==
    (/\ ret.op = MixOp
     /\ ret.args.voice.readable /\ ret.args.music.readable
     /\ ret.dirBefore = "dir")
    => /\ ret.status = "returned"
       /\ ConventionName(ret.args, bgm) \in DOMAIN files
       /\ Len(files[ConventionName(ret.args, bgm)].samples) = Len(ret.args.voice.samples)

\* C2: when the Mixer completes, the music it mixed has the voice's length; it
\* is the original music repeated (sample i is original sample i mod its
\* length) when the original is shorter than the voice, and the original's
\* prefix otherwise; the mixed signal is voice + that music * volume.
C2_MusicIsLoopedOrTruncated ==
    (ret.op = MixOp /\ ret.status = "returned")
    => LET voice == ret.locals.voice
           music == ret.locals.music
           original == ret.args.music.samples
           volume == ret.args.music_volume
       IN  /\ voice = ret.args.voice.samples
           /\ Len(music) = Len(voice)
           /\ IF Len(original) < Len(voice)
              THEN \A i \in 0..(Len(voice) - 1) :
                      music[i + 1] = original[(i % Len(original)) + 1]
              ELSE \A i \in 1..Len(voice) : music[i] = original[i]
           /\ Len(ret.locals.mixed) = Len(voice)
           /\ \A i \in 1..Len(voice) :
                  ret.locals.mixed[i] = voice[i] * volume[2] + music[i] * volume[1]

\* C2 witness: a completed mix whose music was shorter than the voice, had
\* two distinct samples, and did not divide the voice's length.
C2_Witness ==
    /\ ret.op = MixOp /\ ret.status = "returned"
    /\ Len(ret.args.music.samples) = 2
    /\ ret.args.music.samples[1] # ret.args.music.samples[2]
    /\ Len(ret.args.voice.samples) = 3

\* C3: every record of a listing has the speaker name that is the part of the
\* base name before its first '_' cut to the part after its last '-', and
\* has_bgm exactly when the base name contains "bgm" in any letter case;
\* en-Emma_female.wav gives (Emma, false) and en-Emma_bgm.wav (Emma, true).
C3_SpeakerNameAndBgmFlag ==
    (ret.op = ListOp /\ ret.status = "returned")
    => \A i \in 1..Len(ret.value) :
          LET r == ret.value[i]
              base == splitext(r.file)[1]
          IN  /\ r.speaker_name = AfterLast(BeforeFirst(base, "_"), "-")
              /\ r.has_bgm = MentionsBgm(base)
              /\ r.file = EmmaFemaleWav => r.speaker_name = Emma /\ ~r.has_bgm
              /\ r.file = EmmaBgmWav => r.speaker_name = Emma /\ r.has_bgm

\* C3 witness: a listing of en-Emma_bgm.wav next to a name with a second '_'.
C3_Witness ==
    /\ ret.op = ListOp /\ ret.status = "returned" /\ Len(ret.value) = 2
    /\ \E i \in 1..2 : ret.value[i].file = EmmaBgmWav
    /\ \E i \in 1..2 : Has(ret.value[i].speaker_name, "-") = FALSE
                        /\ Cardinality({k \in 1..Len(ret.value[i].file) :
                                           ret.value[i].file[k] = "_"}) = 2

\* C4 (as claimed): the Lister never raises, whatever the path is, and returns
\* an empty list for a missing path and for a directory without audio files.
C4_ListerNeverRaises ==
    ret.op = ListOp
    => /\ ret.status = "returned"
       /\ (ret.dirBefore = "missing" \/ \A f \in DOMAIN files : ~HasAudioExtension(f))
             => ret.value = <<>>

\* C4 (amended): on a missing path the Lister returns an empty list; on a
\* directory it returns, and returns the empty list exactly when no entry has
\* an audio extension; on a path that is a regular file it raises.
C4_ListerRaisesOnlyOnNonDirectory ==
    ret.op = ListOp
    => /\ ret.dirBefore = "missing" => ret.status = "returned" /\ ret.value = <<>>
       /\ ret.dirBefore = "dir"
             => /\ ret.status = "returned"
                /\ (ret.value = <<>>) = (\A f \in DOMAIN files : ~HasAudioExtension(f))
       /\ ret.dirBefore = "file" => ret.status = "raised"

\* C4 witness: a listing of a directory that holds files, none of them audio.
C4_Witness ==
    /\ ret.op = ListOp /\ ret.dirBefore = "dir" /\ ret.value = <<>>
    /\ ret.status = "returned"
    /\ Cardinality(DOMAIN files) = 2

\* C5: validate_voice_file always returns, and returns a boolean: TRUE when
\* the file loaded and FALSE when loading failed.
C5_ValidatorReturnsBoolean ==
    ret.op = ValidateOp
    => /\ ret.status = "returned"
       /\ ret.value \in BOOLEAN
       /\ ret.value = ret.args.audio.readable

\* C5 witness: a validation of an unreadable path that returned FALSE.
C5_Witness ==
    /\ ret.op = ValidateOp /\ ~ret.args.audio.readable
    /\ ret.status = "returned" /\ ret.value = FALSE

\* C6: for a loadable source with a non-zero sample (and a voices_dir that is
\* not a regular file) the Importer returns <voices_dir>/<lang>-<speaker>_
\* <gender>.wav, the file is there, every written sample is the trimmed
\* sample / the trimmed peak * 0.95, and the largest magnitude is 0.95.
C6_ImporterWritesPeakNormalised ==
    (/\ ret.op = Add
     /\ ret.args.source_audio.readable
     /\ \E i \in 1..Len(ret.args.source_audio.samples) :
            ret.args.source_audio.samples[i] # 0
     /\ ret.dirBefore # "file")
    => /\ ret.status = "returned"
       /\ ret.value = ConventionPath(ret.args, ret.args.gender)
       /\ ConventionName(ret.args, ret.args.gender) \in DOMAIN files
       /\ LET written == files[ConventionName(ret.args, ret.args.gender)].samples
              source == ret.args.source_audio.samples
              trimmed == ret.locals.audio
              peak == CHOOSE m \in 0..Loud + 1 :
                         /\ \E i \in 1..Len(trimmed) : Abs(trimmed[i]) = m
                         /\ \A i \in 1..Len(trimmed) : Abs(trimmed[i]) <= m
          IN  /\ \E a \in 1..Len(source), b \in 1..Len(source) :
                     trimmed = SubSeq(source, a, b)
              /\ Len(written) = Len(trimmed)
              /\ \A i \in 1..Len(written) :
                     /\ written[i][2] > 0
                     /\ written[i][1] * PeakDen * peak = PeakNum * trimmed[i] * written[i][2]
                     /\ Abs(written[i][1]) * PeakDen <= PeakNum * written[i][2]
              /\ \E i \in 1..Len(written) :
                     Abs(written[i][1]) * PeakDen = PeakNum * written[i][2]

\* C6 witness: an import whose trim removed samples and whose peak is negative.
C6_Witness ==
    /\ ret.op = Add /\ ret.status = "returned"
    /\ Len(ret.locals.audio) < Len(ret.args.source_audio.samples)
    /\ \E i \in 1..Len(ret.locals.audio) : ret.locals.audio[i] = 0 - Loud
    /\ \E i \in 1..Len(ret.locals.audio) : ret.locals.audio[i] = 1

\* C7 (as claimed): an Importer or Mixer call on a missing voices_dir, with
\* loadable non-empty sources, makes the directory and writes its file there.
C7_MissingDirectoryIsCreated ==
    (/\ ret.op \in {Add, MixOp}
     /\ ret.dirBefore = "missing"
     /\ ret.op = Add => /\ ret.args.source_audio.readable
                        /\ ret.args.source_audio.n > 0
     /\ ret.op = MixOp => /\ ret.args.voice.readable /\ ret.args.voice.n > 0
                          /\ ret.args.music.readable /\ ret.args.music.n > 0)
    => /\ ret.status = "returned"
       /\ dirKind = "dir"
       /\ ConventionName(ret.args, IF ret.op = Add THEN ret.args.gender ELSE bgm)
             \in DOMAIN files

\* C8 (as claimed): no call changes or removes a file that exists.
C8_NoFileEverChanges ==
    [][\A f \in DOMAIN files : f \in DOMAIN files' /\ files'[f] = files[f]]_vars

\* C8 (amended): no call removes a file; a file changes or appears only as the
\* target of an Importer or Mixer call that returned, whose result is its
\* path; the Lister and the Validator leave the directory as it was.
C8_OnlyTheTargetIsReplaced ==
    [][/\ \A f \in DOMAIN files : f \in DOMAIN files'
       /\ \A f \in DOMAIN files' :
             (f \notin DOMAIN files \/ files'[f] # files[f])
             => /\ ret'.op \in {Add, MixOp}
                /\ ret'.status = "returned"
                /\ ret'.value = voices_dir \o <<"/">> \o f
       /\ ret'.op \in {ListOp, ValidateOp} => files' = files /\ dirKind' = dirKind
      ]_vars

\* C8 witness: the file the directory started with has been replaced by an
\* import, and a second file, written by the Mixer, is still there.
C8_Witness ==
    /\ ret.op = Add /\ ret.status = "returned"
    /\ EmmaFemaleWav \in DOMAIN files /\ files[EmmaFemaleWav] # StockFile
    /\ EmmaBgmWav \in DOMAIN files
    /\ ret.value = voices_dir \o <<"/">> \o EmmaFemaleWav

\* C9: a validation of a loaded file returns TRUE and reports exactly one
\* duration outcome (too short iff n/sr < 2, too long iff n/sr > 30, good
\* otherwise) and exactly one rate outcome (optimal iff sr = 24000).
C9_ValidatorReportsOneOfEach ==
    (ret.op = ValidateOp /\ ret.args.audio.readable)
    => LET n == ret.args.audio.n
           sr == ret.args.audio.sr
           duration == Lines({"too_short", "too_long", "duration_good"})
           rate == Lines({"will_resample", "rate_optimal"})
       IN  /\ ret.value = TRUE
           /\ Cardinality(duration) = 1
           /\ Cardinality(rate) = 1
           /\ \A i \in duration :
                  ret.out[i] = IF n < 2 * sr THEN "too_short"
                               ELSE IF n > 30 * sr THEN "too_long"
                               ELSE "duration_good"
           /\ \A i \in rate :
                  ret.out[i] = IF sr = 24000 THEN "rate_optimal" ELSE "will_resample"

\* C9 witness: a file of exactly 30 seconds at another rate than 24000 Hz,
\* reported as a good duration that will be resampled.
C9_Witness ==
    /\ ret.op = ValidateOp /\ ret.args.audio.readable
    /\ ret.args.audio.sr # 24000
    /\ ret.args.audio.n = 30 * ret.args.audio.sr
    /\ Lines({"duration_good"}) # {} /\ Lines({"will_resample"}) # {}

\* C10: a listing after a write (speaker name non-empty and free of '_' and
\* '-', language code free of '_') has a record of the written file with
\* that speaker name; has_bgm is true for a Mixer file, and false for an
\* Importer file none of whose three name parts contains "bgm".
C10_WrittenNameIsReadBack ==
    (/\ ret.op = ListOp /\ ret.status = "returned"
     /\ lastWrite # None
     /\ lastWrite.speaker_name # <<>>
     /\ ~Has(lastWrite.speaker_name, "_") /\ ~Has(lastWrite.speaker_name, "-")
     /\ ~Has(lastWrite.language_code, "_"))
    => \E i \in 1..Len(ret.value) :
          /\ ret.value[i].file = ConventionName(lastWrite, lastWrite.tag)
          /\ ret.value[i].speaker_name = lastWrite.speaker_name
          /\ lastWrite.op = MixOp => ret.value[i].has_bgm
          /\ (/\ lastWrite.op = Add
              /\ ~MentionsBgm(lastWrite.language_code)
              /\ ~MentionsBgm(lastWrite.speaker_name)
              /\ ~MentionsBgm(lastWrite.tag))
             => ~ret.value[i].has_bgm

\* C10 witness: a listing after an import whose name parts join to
\* "b-gm_gm.wav", read back with its speaker name and without has_bgm.
C10_Witness ==
    /\ ret.op = ListOp /\ ret.status = "returned"
    /\ lastWrite # None /\ lastWrite.op = Add
    /\ lastWrite.language_code = <<"b">>
    /\ lastWrite.speaker_name = <<"g", "m">>
    /\ lastWrite.tag = <<"g", "m">>
    /\ \E i \in 1..Len(ret.value) :
          ret.value[i].speaker_name = <<"g", "m">> /\ ~ret.value[i].has_bgm
====
